---------------------------- MODULE Spec2Model ----------------------------
(***************************************************************************)
(* molt-shield: the vault (src/src/vault.py), the three-stage gatekeeper   *)
(* pipeline (src/src/gatekeeper.py), policy generation and storage        *)
(* (src/src/policy_engine.py) and the request handling of the server       *)
(* (src/src/server.py).                                                    *)
(*                                                                         *)
(* A Python str is a sequence of one-character strings.  A serialized XML  *)
(* text is such a sequence too, in which a tag or attribute name is one    *)
(* multi-character item (never alphanumeric for the regular expressions).  *)
(***************************************************************************)
EXTENDS Integers, Sequences, FiniteSets, TLC

VARIABLES
    entries,    \* Vault.entries: placeholder -> VaultEntry
    clock,      \* datetime.now() as a logical clock
    issued,     \* history: what each store call was given and returned
    ret,        \* the value the last vault call returned
    lastCall,   \* the last call from outside: function, argument, exception
    vaultFile,  \* the JSON file at Vault.path (NoFile when absent)
    inputFile,  \* the XML file apply_gatekeeper is pointed at
    policy,     \* the Policy argument
    config,     \* the PolicyEngineConfig argument
    tagMapArg,  \* the tag_map argument (None: DEFAULT_TAG_MAP)
    pc,         \* where apply_gatekeeper stands
    tree,       \* the local variable `tree` of apply_gatekeeper
    stages,     \* history: the stages that ran to completion, in order
    outFile,    \* the sanitized XML file (NoFile when absent)
    policyFile, \* the JSON file save_policy writes (NoFile when absent)
    threads     \* the local state of each concurrent invocation

vars == <<entries, clock, issued, ret, lastCall, vaultFile, inputFile, policy,
          config, tagMapArg, pc, tree, stages, outFile, policyFile, threads>>

vaultVars == <<entries, clock, issued, ret, lastCall, vaultFile>>
pipeVars == <<inputFile, policy, config, tagMapArg, pc, tree, stages, outFile,
              policyFile, threads>>

\* Python's None where a str is expected
None == <<"None">>
\* a file: absent, or present with its content
NoFile == [exists |-> FALSE, data |-> <<>>]
File(data) == [exists |-> TRUE, data |-> data]
\* a call: the function called, its argument, the exception it raised ("" when
\* it returned)
Called(op, arg, raised) == [op |-> op, arg |-> arg, raised |-> raised]
NoCall == Called("", <<>>, "")

(***************************************************************************)
(* Bounds of the model.                                                    *)
(***************************************************************************)
MaxStores == 3
MaxKids == 2
MaxGrand == 2
MaxParts == 3

(***************************************************************************)
(* Characters and the two regular expressions of the code.                 *)
(***************************************************************************)
Digits == {"0", "1", "2", "3", "4", "5", "6", "7", "8", "9"}
Letters ==
    {"a", "b", "c", "d", "e", "f", "g", "h", "i", "j", "k", "l", "m", "n",
     "o", "p", "q", "r", "s", "t", "u", "v", "w", "x", "y", "z",
     "A", "B", "C", "D", "E", "F", "G", "H", "I", "J", "K", "L", "M", "N",
     "O", "P", "Q", "R", "S", "T", "U", "V", "W", "X", "Y", "Z"}
Spaces == {" ", "\t", "\n"}

IsDigit(c) == c \in Digits
IsAlnum(c) == c \in Digits \cup Letters
IsSpace(c) == c \in Spaces

\* str.strip(): without the leading and trailing whitespace
Strip(s) ==
    LET keep == {i \in 1..Len(s) : ~IsSpace(s[i])}
    IN  IF keep = {} THEN <<>>
        ELSE LET first == CHOOSE i \in keep : \A j \in keep : i <= j
                 last == CHOOSE i \in keep : \A j \in keep : j <= i
             IN  SubSeq(s, first, last)

\* the length of the longest run of digits at the front of s (greedy \d+)
RECURSIVE LeadingDigits(_)
LeadingDigits(s) ==
    IF s = <<>> \/ ~IsDigit(Head(s)) THEN 0 ELSE 1 + LeadingDigits(Tail(s))

\* the length of the longest alphanumeric run at the front of s ([a-zA-Z0-9]+)
RECURSIVE LeadingAlnum(_)
LeadingAlnum(s) ==
    IF s = <<>> \/ ~IsAlnum(Head(s)) THEN 0 ELSE 1 + LeadingAlnum(Tail(s))

DefaultValuePattern == "-?\\d+\\.?\\d*"
AnyTextPattern == ".+"

\* re.fullmatch of -?\d+\.?\d* on s
FullMatchNumeric(s) ==
    LET body == IF s # <<>> /\ Head(s) = "-" THEN Tail(s) ELSE s
        nd == LeadingDigits(body)
        rest == SubSeq(body, nd + 1, Len(body))
    IN  /\ nd >= 1
        /\ \/ rest = <<>>
           \/ /\ Head(rest) = "."
              /\ \A i \in 2..Len(rest) : IsDigit(rest[i])

\* re.compile(value_pattern).fullmatch(s), for the patterns of the model
FullMatch(pattern, s) ==
    IF pattern = DefaultValuePattern THEN FullMatchNumeric(s)
    ELSE s # <<>> /\ \A i \in 1..Len(s) : s[i] # "\n"

(***************************************************************************)
(* Vault (src/src/vault.py).                                               *)
(***************************************************************************)
UidLen == 12
HexPool == {"a", "b"}

\* uuid.uuid4().hex[:12], for a draw d of the generator
Uid(d) == [i \in 1..UidLen |-> d]

ValPrefix == <<"V", "A", "L", "_">>
DefaultFormat == [pre |-> ValPrefix, post |-> <<>>]

\* format_str.format(uuid=uid)
Format(format_str, uid) == format_str.pre \o uid \o format_str.post

\* str(n) for a natural number n
RECURSIVE Decimal(_)
Decimal(n) ==
    LET digit == <<"0", "1", "2", "3", "4", "5", "6", "7", "8", "9">>[(n % 10) + 1]
    IN  IF n < 10 THEN <<digit>> ELSE Append(Decimal(n \div 10), digit)

\* datetime.now(timezone.utc).isoformat() at time now
IsoFormat(now) == <<"T">> \o Decimal(now)

VaultEntry(masked, original, now) ==
    [masked_value |-> masked, original_value |-> original,
     created_at |-> IsoFormat(now)]

\* self.entries[masked] = entry
PutEntry(e, masked, entry) ==
    [p \in DOMAIN e \cup {masked} |-> IF p = masked THEN entry ELSE e[p]]

\* Vault.store with the generator drawing d: the placeholder and the new entries
Store(e, original, format_str, d, now) ==
    LET masked == Format(format_str, Uid(d))
    IN  [masked |-> masked,
         entries |-> PutEntry(e, masked, VaultEntry(masked, original, now))]

\* Vault.restore
Restore(e, masked) ==
    IF masked \in DOMAIN e THEN e[masked].original_value ELSE None

EmptyEntries == [p \in {} |-> None]

(***************************************************************************)
(* Persistence: Vault.save and Vault.load (src/src/vault.py).  The file    *)
(* holds JSON text, modelled by the value it denotes; NotJson is text      *)
(* that json.loads rejects.                                                *)
(***************************************************************************)
JsonValue(kind, s, members) == [kind |-> kind, s |-> s, members |-> members]
JString(s) == JsonValue("string", s, <<>>)
\* a number, null or [] ("number", "null", "array")
JOther(kind) == JsonValue(kind, <<>>, <<>>)
JObject(members) == JsonValue("object", <<>>, members)
NotJson == JsonValue("", <<>>, <<>>)

\* the fields of the dataclass VaultEntry
EntryFields == {"masked_value", "original_value", "created_at"}

\* json.dumps of a field and json.loads of a member: a str is a JSON string,
\* None is null, a number is a value that is not a str
ToJson(v) ==
    IF v = None THEN JOther("null")
    ELSE IF v = <<"number">> THEN JOther("number")
    ELSE JString(v)
FromJson(j) ==
    IF j.kind = "string" THEN j.s ELSE IF j.kind = "null" THEN None ELSE <<j.kind>>

\* json.dumps({key: asdict(entry) for key, entry in self.entries.items()})
JsonDump(e) ==
    JObject([key \in DOMAIN e |->
                JObject([f \in EntryFields |-> ToJson(e[key][f])])])

\* VaultEntry(**vals) raises TypeError unless vals is a mapping with exactly
\* the three fields; the dataclass does not look at the values
IsEntryDict(vals) == vals.kind = "object" /\ DOMAIN vals.members = EntryFields

\* faulty variant: the entries of the file are added to those in memory
LoadMerging(e, file) ==
    LET raw == file.data
    IN  IF ~file.exists THEN [entries |-> e, raised |-> ""]
        ELSE IF raw.kind = "" THEN [entries |-> e, raised |-> "JSONDecodeError"]
        ELSE IF raw.kind # "object"
        THEN [entries |-> e, raised |-> "AttributeError"]
        ELSE IF \E key \in DOMAIN raw.members : ~IsEntryDict(raw.members[key])
        THEN [entries |-> e, raised |-> "TypeError"]
        ELSE [entries |->
                [key \in DOMAIN e \cup DOMAIN raw.members |->
                    IF key \in DOMAIN raw.members
                    THEN [f \in EntryFields |->
                            FromJson(raw.members[key].members[f])]
                    ELSE e[key]],
              raised |-> ""]

\* Vault.load on a vault holding e: the entries afterwards and the exception
\* raised ("" when load returns)
Load(e, file) ==
    LET raw == file.data
    IN  IF ~file.exists THEN [entries |-> e, raised |-> ""]
        ELSE IF raw.kind = "" THEN [entries |-> e, raised |-> "JSONDecodeError"]
        ELSE IF raw.kind # "object"
        THEN [entries |-> e, raised |-> "AttributeError"]
        ELSE IF \E key \in DOMAIN raw.members : ~IsEntryDict(raw.members[key])
        THEN [entries |-> e, raised |-> "TypeError"]
        ELSE [entries |->
                [key \in DOMAIN raw.members |->
                    [f \in EntryFields |->
                        FromJson(raw.members[key].members[f])]],
              raised |-> ""]


(***************************************************************************)
(* Document model: what lxml holds after etree.parse.  A document is a     *)
(* function from node ids to nodes, node 1 the root; kids lists the ids of *)
(* the children in order.  A comment is a node whose tag is not a str.     *)
(***************************************************************************)
Root == 1

Elem(ns, tag, attrs, text) ==
    [isElem |-> TRUE, ns |-> ns, tag |-> tag, attrs |-> attrs, text |-> text,
     kids |-> <<>>]
Comment(text) ==
    [isElem |-> FALSE, ns |-> "", tag |-> "", attrs |-> <<>>, text |-> text,
     kids |-> <<>>]

Num == <<"1", "2", "3", ".", "4", "5">>
PadNum == <<" ", "2", ".", " ">>
UnitNum == <<"1", ".", "5", "k">>
NegNum == <<"-", "2">>
Blank == <<"\n">>

NsUri == "urn:x"

\* the children the root of an input document is drawn from
KidPool ==
    {Elem("", "pressure", <<>>, Num),
     Elem(NsUri, "temperature", <<>>, PadNum),
     Elem("", "coordinates", <<[name |-> "lat", value |-> Num]>>, <<>>),
     Elem("", "reading", <<[name |-> "id", value |-> <<"e", "1">>]>>, UnitNum),
     Comment(Num)}

\* the children the first child of the root is drawn from
GrandPool == {Elem("", "velocity", <<>>, NegNum)}

SeqsUpTo(S, lo, hi) == UNION {[1..n -> S] : n \in lo..hi}
Range(f) == {f[i] : i \in DOMAIN f}

\* the document <root> kinds[1] (with children grands) kinds[2] ... </root>
Build(kinds, grands) ==
    LET k == Len(kinds)
        g == Len(grands)
    IN  [n \in 1..(1 + k + g) |->
            IF n = Root
            THEN [Elem("", "root", <<>>, Blank) EXCEPT
                    !.kids = [i \in 1..k |-> 1 + i]]
            ELSE IF n = 2
            THEN [kinds[1] EXCEPT !.kids = [j \in 1..g |-> 1 + k + j]]
            ELSE IF n <= 1 + k THEN kinds[n - 1]
            ELSE grands[n - 1 - k]]

\* <root><pressure>123.45</pressure></root>
ScenarioDoc ==
    [n \in 1..2 |->
        IF n = Root THEN [Elem("", "root", <<>>, <<>>) EXCEPT !.kids = <<2>>]
        ELSE Elem("", "pressure", <<>>, Num)]

BuiltDocs ==
    {Build(ks, gs) :
        <<ks, gs>> \in
            {c \in SeqsUpTo(KidPool, 1, MaxKids) \X SeqsUpTo(GrandPool, 0, MaxGrand) :
                c[2] # <<>> => c[1][1].isElem}}

DocPool == BuiltDocs \cup {ScenarioDoc}

\* the content of the input file: a document, or text that does not parse
WellFormed(doc) == [wellFormed |-> TRUE, doc |-> doc]
Malformed == [wellFormed |-> FALSE, doc |-> <<>>]

\* root.iter(): the nodes in document order
RECURSIVE PreOrder(_, _), PreOrderAll(_, _)
PreOrder(doc, n) == <<n>> \o PreOrderAll(doc, doc[n].kids)
PreOrderAll(doc, ns) ==
    IF ns = <<>> THEN <<>>
    ELSE PreOrder(doc, Head(ns)) \o PreOrderAll(doc, Tail(ns))


(***************************************************************************)
(* Configuration (src/src/config.py) and policy (src/src/policy_engine.py) *)
(***************************************************************************)
MaskingConfig(value_pattern) ==
    [value_pattern |-> value_pattern, uuid_format |-> DefaultFormat,
     preserve_attributes |-> {"id", "type"}]

ShufflingConfig(enabled, seed) ==
    [enabled |-> enabled, seed |-> seed,
     target_tags |-> {"element", "node", "component"}]

PolicyEngineConfig(value_pattern, enabled, seed) ==
    [masking |-> MaskingConfig(value_pattern),
     shuffling |-> ShufflingConfig(enabled, seed)]

\* seed: int | None
NoSeed == [given |-> FALSE, value |-> 0]
Seed(n) == [given |-> TRUE, value |-> n]

\* PolicyEngineConfig(): every field at its default
DefaultConfig == PolicyEngineConfig(DefaultValuePattern, TRUE, NoSeed)

Rule(tag_pattern, action, parameters) ==
    [tag_pattern |-> tag_pattern, action |-> action, parameters |-> parameters]

Policy(global_masking, rules) ==
    [version |-> "1.0", global_masking |-> global_masking, rules |-> rules,
     created_at |-> None]

\* parameters: dict | None
NoParameters == [given |-> FALSE, items |-> {}]
Parameters(items) == [given |-> TRUE, items |-> items]

MaskRule(tag) == Rule(tag, "mask_value", NoParameters)
ShuffleRule(tag, child) ==
    Rule(tag, "shuffle_siblings", Parameters({<<"child_tag", child>>}))

GlobalMaskPolicy == Policy(TRUE, <<>>)
MaskRulePolicy == Policy(FALSE, <<MaskRule("pressure")>>)
MaskShufflePolicy ==
    Policy(FALSE, <<MaskRule("velocity"), ShuffleRule("root", "pressure")>>)
ShufflePolicy ==
    Policy(FALSE, <<ShuffleRule("root", "reading"),
                    ShuffleRule("pressure", "velocity")>>)
PreservePolicy == Policy(FALSE, <<Rule("reading", "preserve", NoParameters)>>)

\* [r for r in rules if r.action == action]
RulesWith(rules, action) == SelectSeq(rules, LAMBDA r : r.action = action)

(***************************************************************************)
(* Stage A: mask_values (src/src/gatekeeper.py).                           *)
(***************************************************************************)
\* faulty variant: only elements without children are masked
IsMaskedLeafOnly(node, pattern) ==
    /\ node.isElem
    /\ node.kids = <<>>
    /\ Strip(node.text) # <<>>
    /\ FullMatch(pattern, Strip(node.text))

\* faulty variant: pattern.match instead of pattern.fullmatch
IsMaskedPrefix(node, pattern) ==
    /\ node.isElem
    /\ \E k \in 1..Len(Strip(node.text)) :
            FullMatch(pattern, SubSeq(Strip(node.text), 1, k))

\* the test of the loop body: the element's text is masked
IsMasked(node, pattern) ==
    /\ node.isElem
    /\ Strip(node.text) # <<>>
    /\ FullMatch(pattern, Strip(node.text))

\* the elements of doc that Stage A masks, in document order
Matching(doc, pattern) ==
    SelectSeq(PreOrder(doc, Root), LAMBDA n : IsMasked(doc[n], pattern))

\* one pass of the loop body over the elements `order`; draws[i] is what the
\* generator yields for the i-th store
RECURSIVE MaskLoop(_, _, _, _)
MaskLoop(st, order, pattern, draws) ==
    IF order = <<>> THEN st
    ELSE LET n == Head(order)
             text == Strip(st.doc[n].text)
         IN  IF IsMasked(st.doc[n], pattern)
             THEN LET r == Store(st.entries, text, DefaultFormat,
                                 draws[Len(st.log) + 1], st.clock)
                  IN  MaskLoop(
                          [doc |-> [st.doc EXCEPT ![n].text = r.masked],
                           entries |-> r.entries,
                           log |-> Append(st.log,
                                      [node |-> n, original |-> text,
                                       masked |-> r.masked]),
                           clock |-> st.clock + 1],
                          Tail(order), pattern, draws)
             ELSE MaskLoop(st, Tail(order), pattern, draws)

\* mask_values(tree, masking_config, vault)
MaskValues(doc, masking_config, e, draws, now) ==
    MaskLoop([doc |-> doc, entries |-> e, log |-> <<>>, clock |-> now],
             PreOrder(doc, Root), masking_config.value_pattern, draws)


(***************************************************************************)
(* Stage B: shuffle_siblings (src/src/gatekeeper.py).                      *)
(***************************************************************************)
\* random.Random: a deterministic generator; its state is a number
RngStates == 0..6
RngSeeded(n) == n % 7
RngAdvance(s) == (3 * s + 1) % 7
\* the draw _randbelow(k) makes in state s (the state after it is RngAdvance(s))
RandBelow(s, k) == RngAdvance(s) % k

Swap(list, i, j) ==
    [list EXCEPT ![i] = list[j], ![j] = list[i]]

\* rng.shuffle(list): for i in reversed(range(1, n)): swap x[i], x[randbelow(i+1)]
\* (i counts the positions 2..n of the 1-based list from the top down)
RECURSIVE ShuffleFrom(_, _, _)
ShuffleFrom(list, s, i) ==
    IF i < 2 THEN [list |-> list, rng |-> s]
    ELSE ShuffleFrom(Swap(list, i, RandBelow(s, i) + 1), RngAdvance(s), i - 1)

RngShuffle(list, s) == ShuffleFrom(list, s, Len(list))

\* elem.getparent(), 0 for the root
ParentOf(doc, n) ==
    IF \E p \in DOMAIN doc : n \in Range(doc[p].kids)
    THEN CHOOSE p \in DOMAIN doc : n \in Range(doc[p].kids)
    ELSE 0

IndexIn(list, x) == CHOOSE i \in DOMAIN list : list[i] = x

\* the node after n in document order once the subtree of n is done, 0 at the end
RECURSIVE NextAfter(_, _)
NextAfter(doc, n) ==
    LET p == ParentOf(doc, n)
    IN  IF p = 0 THEN 0
        ELSE LET i == IndexIn(doc[p].kids, n)
             IN  IF i < Len(doc[p].kids) THEN doc[p].kids[i + 1]
                 ELSE NextAfter(doc, p)

\* lxml's depth-first iterator: the node that follows n in the tree as it is now
NextNode(doc, n) ==
    IF doc[n].kids # <<>> THEN Head(doc[n].kids) ELSE NextAfter(doc, n)

\* the set shuffle_parents, or target_tags when rules is None or empty
ShuffleTags(shuffling_config, rules) ==
    IF rules # <<>>
    THEN {rules[i].tag_pattern :
            i \in {j \in DOMAIN rules : rules[j].action = "shuffle_siblings"}}
    ELSE shuffling_config.target_tags

\* faulty variant: the last of the shuffled children is not appended again
ShuffleBodyDropLast(st, n, tags) ==
    LET node == st.doc[n]
    IN  IF node.isElem /\ node.tag \in tags /\ Len(node.kids) >= 2
        THEN LET r == RngShuffle(node.kids, st.rng)
             IN  [doc |-> [st.doc EXCEPT
                             ![n].kids = SubSeq(r.list, 1, Len(r.list) - 1)],
                  rng |-> r.rng]
        ELSE st

\* the body of the loop for the element n: its children reordered
ShuffleBody(st, n, tags) ==
    LET node == st.doc[n]
    IN  IF node.isElem /\ node.tag \in tags /\ Len(node.kids) >= 2
        THEN LET r == RngShuffle(node.kids, st.rng)
             IN  [doc |-> [st.doc EXCEPT ![n].kids = r.list], rng |-> r.rng]
        ELSE st

\* for elem in root.iter(): the iterator has already moved on to the node that
\* followed elem when it hands elem to the body
RECURSIVE ShuffleIter(_, _, _)
ShuffleIter(st, n, tags) ==
    IF n = 0 THEN st
    ELSE ShuffleIter(ShuffleBody(st, n, tags), NextNode(st.doc, n), tags)

\* shuffle_siblings(tree, shuffling_config, rules) with the generator starting
\* in state s0: the tree it leaves behind (the str returned serializes it)
ShuffleSiblings(doc, shuffling_config, rules, s0) ==
    IF ~shuffling_config.enabled THEN doc
    ELSE ShuffleIter([doc |-> doc, rng |-> s0], Root,
                     ShuffleTags(shuffling_config, rules)).doc

(***************************************************************************)
(* Stage C: _apply_tag_shadowing (src/src/gatekeeper.py).                  *)
(***************************************************************************)
DEFAULT_TAG_MAP ==
    [t \in {"pressure", "temperature", "velocity", "coordinates"} |->
        CASE t = "pressure" -> "metric_alpha"
          [] t = "temperature" -> "thermal_beta"
          [] t = "velocity" -> "kinematic_gamma"
          [] t = "coordinates" -> "spatial_delta"]

\* a caller's own map
CustomTagMap == [t \in {"reading"} |-> "pressure"]

\* tag_map: dict | None
NoTagMap == [given |-> FALSE, map |-> <<>>]
TagMap(m) == [given |-> TRUE, map |-> m]

\* faulty variant: the qualified elem.tag is looked up, so a namespaced element is
\* never renamed
ShadowTagQualified(node, tag_map) ==
    IF node.isElem /\ node.ns = "" /\ node.tag \in DOMAIN tag_map
    THEN [node EXCEPT !.tag = tag_map[node.tag]]
    ELSE node

\* the body of the loop: the element renamed, its namespace kept
ShadowTag(node, tag_map) ==
    IF node.isElem /\ node.tag \in DOMAIN tag_map
    THEN [node EXCEPT !.tag = tag_map[node.tag]]
    ELSE node

\* faulty variant: the root alone is renamed, not root.iter()
ApplyTagShadowingRootOnly(doc, tag_map) ==
    [n \in DOMAIN doc |-> IF n = Root THEN ShadowTag(doc[n], tag_map) ELSE doc[n]]

\* for elem in root.iter(): the loop body on every node
ApplyTagShadowing(doc, tag_map) ==
    [n \in DOMAIN doc |-> ShadowTag(doc[n], tag_map)]


(***************************************************************************)
(* tree.write: the document as XML text.  Markup is made of the items      *)
(* "<", "</", ">", "/>", "<!--", "-->" and of names; text and attribute    *)
(* values are written character by character.                              *)
(***************************************************************************)
NsPrefix == "ns0"

SerName(node) ==
    IF node.ns = "" THEN <<node.tag>> ELSE <<NsPrefix, ":", node.tag>>

SerNsDecl(node) ==
    IF node.ns = "" THEN <<>> ELSE <<" ", "xmlns:ns0", "=", "\"", node.ns, "\"">>

RECURSIVE SerAttrs(_)
SerAttrs(attrs) ==
    IF attrs = <<>> THEN <<>>
    ELSE <<" ", Head(attrs).name, "=", "\"">> \o Head(attrs).value \o <<"\"">>
            \o SerAttrs(Tail(attrs))

RECURSIVE SerNode(_, _), SerAll(_, _)
SerNode(doc, n) ==
    LET node == doc[n]
    IN  IF ~node.isElem THEN <<"<!--">> \o node.text \o <<"-->">>
        ELSE <<"<">> \o SerName(node) \o SerNsDecl(node) \o SerAttrs(node.attrs)
             \o (IF node.text = <<>> /\ node.kids = <<>> THEN <<"/>">>
                 ELSE <<">">> \o node.text \o SerAll(doc, node.kids)
                      \o <<"</">> \o SerName(node) \o <<">">>)
SerAll(doc, ns) ==
    IF ns = <<>> THEN <<>>
    ELSE SerNode(doc, Head(ns)) \o SerAll(doc, Tail(ns))

Serialize(doc) == <<"<?xml?>">> \o SerNode(doc, Root)

\* reading the text back: the start tags, in document order
StartTags(xml) == SelectSeq([i \in DOMAIN xml |-> i], LAMBDA i : xml[i] = "<")

MarkupOpeners == {"<", "</", "<!--"}

\* the number of items at the front of s up to the first one in `stops`
RECURSIVE RunUntil(_, _)
RunUntil(s, stops) ==
    IF s = <<>> \/ Head(s) \in stops THEN 0 ELSE 1 + RunUntil(Tail(s), stops)

\* the element whose start tag begins at position i: local name and text
ElementAt(xml, i) ==
    LET local == IF xml[i + 2] = ":" THEN xml[i + 3] ELSE xml[i + 1]
        rest == SubSeq(xml, i + 1, Len(xml))
        close == i + RunUntil(rest, {">", "/>"}) + 1
        after == SubSeq(xml, close + 1, Len(xml))
    IN  [tag |-> local,
         text |-> IF xml[close] = "/>" THEN <<>>
                  ELSE SubSeq(after, 1, RunUntil(after, MarkupOpeners))]

\* the elements of an XML text, in document order
Elements(xml) ==
    LET starts == StartTags(xml)
    IN  [k \in DOMAIN starts |-> ElementAt(xml, starts[k])]

\* needle in haystack (Python's `in` on str)
Contains(haystack, needle) ==
    \E i \in 0..(Len(haystack) - Len(needle)) :
        SubSeq(haystack, i + 1, i + Len(needle)) = needle

(***************************************************************************)
(* Vault.rehydrate_xml: re.sub(r"VAL_[a-zA-Z0-9]+", replace_match, text)   *)
(***************************************************************************)
\* the length of the match of VAL_[a-zA-Z0-9]+ at the front of s, 0 if none
MatchAtFront(s) ==
    IF Len(s) >= 5 /\ SubSeq(s, 1, 4) = ValPrefix /\ IsAlnum(s[5])
    THEN 4 + LeadingAlnum(SubSeq(s, 5, Len(s)))
    ELSE 0

\* replace_match
ReplaceMatch(e, masked) ==
    IF Restore(e, masked) # None THEN Restore(e, masked) ELSE masked

RECURSIVE RehydrateXml(_, _)
RehydrateXml(e, xml) ==
    IF xml = <<>> THEN <<>>
    ELSE LET m == MatchAtFront(xml)
         IN  IF m > 0
             THEN ReplaceMatch(e, SubSeq(xml, 1, m))
                    \o RehydrateXml(e, SubSeq(xml, m + 1, Len(xml)))
             ELSE <<Head(xml)>> \o RehydrateXml(e, Tail(xml))


(***************************************************************************)
(* apply_gatekeeper (src/src/gatekeeper.py), one action per step.          *)
(***************************************************************************)
Call(p, c, tag_map) == [policy |-> p, config |-> c, tag_map |-> tag_map]

\* the arguments apply_gatekeeper is called with
CallPool ==
    {Call(GlobalMaskPolicy, DefaultConfig, NoTagMap),
     Call(GlobalMaskPolicy, DefaultConfig, TagMap(CustomTagMap)),
     Call(GlobalMaskPolicy, PolicyEngineConfig(AnyTextPattern, TRUE, NoSeed),
          NoTagMap),
     Call(MaskRulePolicy, DefaultConfig, NoTagMap),
     Call(MaskShufflePolicy,
          PolicyEngineConfig(DefaultValuePattern, TRUE, Seed(4)), NoTagMap),
     Call(MaskShufflePolicy,
          PolicyEngineConfig(DefaultValuePattern, FALSE, NoSeed), NoTagMap),
     Call(ShufflePolicy, DefaultConfig, NoTagMap),
     Call(PreservePolicy, DefaultConfig, TagMap(CustomTagMap))}

NoTree == [kind |-> "None", doc |-> <<>>]
ElementTree(doc) == [kind |-> "ElementTree", doc |-> doc]
\* the str that etree.tostring makes of doc
XmlStr(doc) == [kind |-> "str", doc |-> doc]

\* faulty variant: the mask_value rules are not consulted
MaskingActiveGlobalOnly(p) == p.global_masking

\* policy.global_masking or mask_rules
MaskingActive(p) == p.global_masking \/ RulesWith(p.rules, "mask_value") # <<>>

\* faulty variant: the stage runs whenever shuffling is enabled
ShufflingActiveEnabledOnly(c, p) == c.shuffling.enabled

\* config.shuffling.enabled and shuffle_rules
ShufflingActive(c, p) ==
    c.shuffling.enabled /\ RulesWith(p.rules, "shuffle_siblings") # <<>>

\* tag_map if tag_map is not None else DEFAULT_TAG_MAP
EffectiveMap(arg) == IF arg.given THEN arg.map ELSE DEFAULT_TAG_MAP

\* faulty variant: the new Vault starts from the entries of the file at its path
ParseLoadsVault ==
    /\ pc = "parse"
    /\ IF inputFile.wellFormed
       THEN /\ tree' = ElementTree(inputFile.doc)
            /\ entries' = Load(EmptyEntries, vaultFile).entries
            /\ pc' = "mask"
       ELSE /\ pc' = "failed"
            /\ UNCHANGED <<tree, entries>>
    /\ UNCHANGED <<clock, issued, ret, vaultFile, inputFile, policyFile, threads,
                   lastCall, policy, config, tagMapArg, stages, outFile>>

\* tree = etree.parse(xml_path); vault = Vault(config.vault_path)
Parse ==
    /\ pc = "parse"
    /\ IF inputFile.wellFormed
       THEN /\ tree' = ElementTree(inputFile.doc)
            /\ entries' = EmptyEntries
            /\ pc' = "mask"
       ELSE /\ pc' = "failed"
            /\ UNCHANGED <<tree, entries>>
    /\ UNCHANGED <<clock, issued, ret, vaultFile, inputFile, policyFile, threads, lastCall, policy, config,
                   tagMapArg, stages, outFile>>

\* faulty variant: the vault is saved as soon as Stage A has filled it
MaskStageSavesVault ==
    /\ pc = "mask"
    /\ IF MaskingActive(policy)
       THEN \E draws \in
                [1..Len(Matching(tree.doc, config.masking.value_pattern)) -> HexPool] :
                LET r == MaskValues(tree.doc, config.masking, entries, draws, clock)
                IN  /\ tree' = ElementTree(r.doc)
                    /\ entries' = r.entries
                    /\ issued' = issued \o r.log
                    /\ clock' = r.clock
                    /\ stages' = Append(stages, "A")
                    /\ vaultFile' = File(JsonDump(r.entries))
       ELSE UNCHANGED <<tree, entries, issued, clock, stages, vaultFile>>
    /\ pc' = "shuffle"
    /\ UNCHANGED <<ret, inputFile, policyFile, threads, lastCall, policy, config, tagMapArg, outFile>>

\* 1. Mask numeric values
MaskStage ==
    /\ pc = "mask"
    /\ IF MaskingActive(policy)
       THEN \E draws \in
                [1..Len(Matching(tree.doc, config.masking.value_pattern)) -> HexPool] :
                LET r == MaskValues(tree.doc, config.masking, entries, draws, clock)
                IN  /\ tree' = ElementTree(r.doc)
                    /\ entries' = r.entries
                    /\ issued' = issued \o r.log
                    /\ clock' = r.clock
                    /\ stages' = Append(stages, "A")
       ELSE UNCHANGED <<tree, entries, issued, clock, stages>>
    /\ pc' = "shuffle"
    /\ UNCHANGED <<ret, vaultFile, inputFile, policyFile, threads, lastCall, policy, config, tagMapArg, outFile>>

\* 2. Shuffle siblings; random.Random(seed) is seeded from the system when
\* the seed is None
ShuffleStage ==
    /\ pc = "shuffle"
    /\ IF ShufflingActive(config, policy)
       THEN \E s0 \in IF config.shuffling.seed.given
                      THEN {RngSeeded(config.shuffling.seed.value)}
                      ELSE RngStates :
                /\ tree' = XmlStr(ShuffleSiblings(
                                tree.doc, config.shuffling,
                                RulesWith(policy.rules, "shuffle_siblings"), s0))
                /\ stages' = Append(stages, "B")
       ELSE UNCHANGED <<tree, stages>>
    /\ pc' = "shadow"
    /\ UNCHANGED <<entries, clock, issued, ret, vaultFile, inputFile, policyFile, threads, lastCall, policy,
                   config, tagMapArg, outFile>>

\* 3. Tag shadowing; tree.getroot() raises AttributeError on a str
ShadowStage ==
    /\ pc = "shadow"
    /\ IF tree.kind = "ElementTree"
       THEN /\ tree' = ElementTree(ApplyTagShadowing(tree.doc, EffectiveMap(tagMapArg)))
            /\ stages' = Append(stages, "C")
            /\ pc' = "write"
       ELSE /\ pc' = "failed"
            /\ UNCHANGED <<tree, stages>>
    /\ UNCHANGED <<entries, clock, issued, ret, vaultFile, inputFile, policyFile, threads, lastCall, policy,
                   config, tagMapArg, outFile>>

\* tree.write(sanitized_path, ...)
WriteOutput ==
    /\ pc = "write"
    /\ outFile' = File(Serialize(tree.doc))
    /\ pc' = "save"
    /\ UNCHANGED <<entries, clock, issued, ret, vaultFile, inputFile, policyFile, threads, lastCall, policy,
                   config, tagMapArg, tree, stages>>

\* vault.save(); return sanitized_path, vault_path
SaveVault ==
    /\ pc = "save"
    /\ vaultFile' = File(JsonDump(entries))
    /\ pc' = "done"
    /\ UNCHANGED <<entries, clock, issued, ret, inputFile, policyFile, threads, lastCall, policy, config,
                   tagMapArg, tree, stages, outFile>>

Init ==
    /\ entries = EmptyEntries
    /\ clock = 0
    /\ issued = <<>>
    /\ ret = None
    /\ lastCall = NoCall
    /\ vaultFile = NoFile
    /\ inputFile \in {WellFormed(d) : d \in DocPool} \cup {Malformed}
    /\ \E call \in CallPool :
            /\ policy = call.policy
            /\ config = call.config
            /\ tagMapArg = call.tag_map
    /\ pc = "parse"
    /\ tree = NoTree
    /\ stages = <<>>
    /\ outFile = NoFile
    /\ policyFile = NoFile
    /\ threads = <<>>

Next ==
    \/ Parse
    \/ MaskStage
    \/ ShuffleStage
    \/ ShadowStage
    \/ WriteOutput
    \/ SaveVault

Spec == Init /\ [][Next]_vars

(***************************************************************************)
(* The vault on its own: any sequence of store and restore calls on one    *)
(* Vault object.                                                           *)
(***************************************************************************)
OriginalPool == {Num, NegNum, <<>>}
ProbePool == {Format(DefaultFormat, Uid(d)) : d \in HexPool} \cup {ValPrefix \o <<"z">>}

VaultStore ==
    /\ Len(issued) < MaxStores
    /\ \E original \in OriginalPool, d \in HexPool :
            LET r == Store(entries, original, DefaultFormat, d, clock)
            IN  /\ entries' = r.entries
                /\ ret' = r.masked
                /\ issued' = Append(issued, [node |-> 0, original |-> original,
                                             masked |-> r.masked])
    /\ clock' = clock + 1
    /\ UNCHANGED <<lastCall, vaultFile, pipeVars>>

VaultRestore ==
    /\ \E masked \in ProbePool : ret' = Restore(entries, masked)
    /\ UNCHANGED <<entries, clock, issued, lastCall, vaultFile, pipeVars>>

InitVault ==
    /\ entries = EmptyEntries
    /\ clock = 0
    /\ issued = <<>>
    /\ ret = None
    /\ lastCall = NoCall
    /\ vaultFile = NoFile
    /\ inputFile = Malformed
    /\ policy = Policy(FALSE, <<>>)
    /\ config = DefaultConfig
    /\ tagMapArg = NoTagMap
    /\ pc = "idle"
    /\ tree = NoTree
    /\ stages = <<>>
    /\ outFile = NoFile
    /\ policyFile = NoFile
    /\ threads = <<>>

NextVault == VaultStore \/ VaultRestore

SpecVault == InitVault /\ [][NextVault]_vars


(***************************************************************************)
(* Properties of the vault, checked under SpecVault.                       *)
(***************************************************************************)
\* C1: after any sequence of store calls, restore(p) is the original that the
\* store call which returned p was given, for every placeholder p returned so
\* far: later stores do not change what an earlier placeholder restores to.
C1_RestoreReturnsOriginal ==
    \A i \in DOMAIN issued :
        Restore(entries, issued[i].masked) = issued[i].original

\* C2: every store call inserts exactly one new entry, under a placeholder
\* that was not a key of the vault before the call; no existing entry is
\* replaced and the number of entries grows by one.
C2_StoreInsertsFreshKey ==
    [][Len(issued') = Len(issued) + 1 =>
        /\ issued'[Len(issued')].masked \notin DOMAIN entries
        /\ Cardinality(DOMAIN entries') = Cardinality(DOMAIN entries) + 1
        /\ \A p \in DOMAIN entries : entries'[p] = entries[p]]_vars


(***************************************************************************)
(* Properties of apply_gatekeeper, checked under Spec.                     *)
(***************************************************************************)
\* the elements of the sanitized output file
OutElements == Elements(outFile.data)

\* the position of element n among the elements of doc, in document order
ElemIndex(doc, n) ==
    IndexIn(SelectSeq(PreOrder(doc, Root), LAMBDA m : doc[m].isElem), n)

\* the text matches the configured pattern once trimmed
MatchesPattern(text) ==
    Strip(text) # <<>> /\ FullMatch(config.masking.value_pattern, Strip(text))

Proprietary == {"pressure", "temperature", "velocity", "coordinates"}

\* C3: after a complete run with masking active, rehydrate_xml of the
\* sanitized output with the persisted vault puts, in every element Stage A
\* masked, the original (trimmed) literal of that element.
C3_RehydrateRecoversMasked ==
    (pc = "done" /\ MaskingActive(policy)) =>
        LET restored == Elements(RehydrateXml(Load(EmptyEntries, vaultFile).entries,
                                              outFile.data))
        IN  \A i \in DOMAIN issued :
                /\ issued[i].original = Strip(inputFile.doc[issued[i].node].text)
                /\ restored[ElemIndex(inputFile.doc, issued[i].node)].text
                     = issued[i].original

\* C4 as stated: after a complete run with masking active, no element of the
\* sanitized output has trimmed text that fully matches the configured
\* value_pattern.
C4_NoMatchingTextInOutput ==
    (pc = "done" /\ MaskingActive(policy)) =>
        \A k \in DOMAIN OutElements : ~MatchesPattern(OutElements[k].text)

\* C4 as amended: the same under the default value_pattern, which no
\* placeholder matches.
C4_NoNumericTextInOutput ==
    (/\ pc = "done"
     /\ MaskingActive(policy)
     /\ config.masking.value_pattern = DefaultValuePattern) =>
        \A k \in DOMAIN OutElements : ~MatchesPattern(OutElements[k].text)

C4_Witness ==
    /\ pc = "done"
    /\ MaskingActive(policy)
    /\ config.masking.value_pattern = DefaultValuePattern
    /\ Len(issued) >= 2

\* C5: on every well-formed input the run ends with Stages A, B, C completed
\* in that order (each stage that ran), Stage C among them, and nothing is
\* written before Stage C has completed.
C5_StageCAlwaysCompletes ==
    inputFile.wellFormed =>
        /\ pc \in {"write", "save", "done", "failed"} =>
                /\ stages \in {<<"C">>, <<"A", "C">>, <<"B", "C">>, <<"A", "B", "C">>}
        /\ outFile.exists => "C" \in Range(stages)

\* C6: under the default tag map no element of the output is named pressure,
\* temperature, velocity or coordinates, with or without a namespace.
C6_NoProprietaryTagInOutput ==
    (outFile.exists /\ ~tagMapArg.given) =>
        \A k \in DOMAIN OutElements : OutElements[k].tag \notin Proprietary

C6_Witness ==
    /\ outFile.exists
    /\ ~tagMapArg.given
    /\ \E n \in DOMAIN inputFile.doc :
            inputFile.doc[n].tag \in Proprietary /\ inputFile.doc[n].ns # ""
    /\ \E n \in DOMAIN inputFile.doc :
            inputFile.doc[n].tag \in Proprietary /\ inputFile.doc[n].ns = ""

\* the run of the scenario of C7 has produced its output
ScenarioRunDone ==
    /\ pc = "done"
    /\ inputFile = WellFormed(ScenarioDoc)
    /\ config = DefaultConfig
    /\ ~tagMapArg.given

\* C7 as stated: for <root><pressure>123.45</pressure></root>, default
\* configuration and default tag map, the element that was named pressure is
\* named thermal_beta in the output.
C7_PressureBecomesThermalBeta ==
    ScenarioRunDone => OutElements[2].tag = "thermal_beta"

\* C7 as amended: that element is named metric_alpha in the output.
C7_PressureBecomesMetricAlpha ==
    ScenarioRunDone => OutElements[2].tag = "metric_alpha"

C7_Witness == ScenarioRunDone /\ stages = <<"A", "C">>

\* the attribute values of the input document that are numeric
NumericAttrValues ==
    UNION {{inputFile.doc[n].attrs[i].value :
                i \in {j \in DOMAIN inputFile.doc[n].attrs :
                    FullMatchNumeric(Strip(inputFile.doc[n].attrs[j].value))}} :
            n \in DOMAIN inputFile.doc}

\* C8: after a run with masking active, no numeric attribute value of the
\* input document appears anywhere in the sanitized output.
C8_NoNumericAttributeInOutput ==
    (pc = "done" /\ MaskingActive(policy)) =>
        \A v \in NumericAttrValues : ~Contains(outFile.data, v)

Count(list, x) == Cardinality({i \in DOMAIN list : list[i] = x})
SameBag(a, b) == \A x \in Range(a) \cup Range(b) : Count(a, x) = Count(b, x)

\* C10: Stage B leaves at every node the same multiset of children, and leaves
\* the tag, attributes and text of every node as they were: only the order of
\* children may change.
C10_ShufflePreservesChildren ==
    [][(pc = "shuffle" /\ pc' = "shadow") =>
        /\ DOMAIN tree'.doc = DOMAIN tree.doc
        /\ \A n \in DOMAIN tree.doc :
                /\ SameBag(tree'.doc[n].kids, tree.doc[n].kids)
                /\ [tree'.doc[n] EXCEPT !.kids = <<>>]
                     = [tree.doc[n] EXCEPT !.kids = <<>>]]_vars

C10_Witness ==
    /\ pc = "shadow"
    /\ "B" \in Range(stages)
    /\ tree.doc[Root].kids # inputFile.doc[Root].kids
    /\ tree.doc[2].kids # inputFile.doc[2].kids


(***************************************************************************)
(* shuffle_siblings called on its own (src/src/gatekeeper.py), as          *)
(* src/tests/unit/test_shuffling.py does: each call parses the same        *)
(* document again and builds its own random.Random(seed).                  *)
(***************************************************************************)
\* faulty variant: the generator is seeded from the system whatever the seed
RngInitialUnseeded(seed) == RngStates

\* random.Random(seed): the states the new generator can be in
RngInitial(seed) ==
    IF seed.given THEN {RngSeeded(seed.value)} ELSE RngStates

\* etree.tostring(tree, encoding='unicode')
Tostring(doc) == SerNode(doc, Root)

ShuffleCall ==
    /\ pc = "idle"
    /\ inputFile.wellFormed
    /\ \E s0 \in RngInitial(config.shuffling.seed) :
            ret' = Tostring(ShuffleSiblings(inputFile.doc, config.shuffling,
                                            policy.rules, s0))
    /\ lastCall' = Called("shuffle_siblings", <<>>, "")
    /\ UNCHANGED <<entries, clock, issued, vaultFile, inputFile, policyFile, threads, policy,
                   config, tagMapArg, pc, tree, stages, outFile>>

InitShuffle ==
    /\ entries = EmptyEntries
    /\ clock = 0
    /\ issued = <<>>
    /\ ret = None
    /\ lastCall = NoCall
    /\ vaultFile = NoFile
    /\ inputFile \in {WellFormed(d) : d \in DocPool}
    /\ policy \in {ShufflePolicy, MaskShufflePolicy, Policy(FALSE, <<>>)}
    /\ config \in {PolicyEngineConfig(DefaultValuePattern, TRUE, Seed(4)),
                   PolicyEngineConfig(DefaultValuePattern, TRUE, Seed(12)),
                   PolicyEngineConfig(DefaultValuePattern, TRUE, NoSeed),
                   PolicyEngineConfig(DefaultValuePattern, FALSE, Seed(4))}
    /\ tagMapArg = NoTagMap
    /\ pc = "idle"
    /\ tree = NoTree
    /\ stages = <<>>
    /\ outFile = NoFile
    /\ policyFile = NoFile
    /\ threads = <<>>

NextShuffle == ShuffleCall

SpecShuffle == InitShuffle /\ [][NextShuffle]_vars

MaxPrior == 2

\* a value json.loads can give rehydrate_dict: str, int, list or dict (keys in
\* insertion order)
PyValue(kind, s, n, keys, items) ==
    [kind |-> kind, s |-> s, n |-> n, keys |-> keys, items |-> items]
PyStr(s) == PyValue("str", s, 0, <<>>, <<>>)
PyInt(n) == PyValue("int", <<>>, n, <<>>, <<>>)
PyList(items) == PyValue("list", <<>>, 0, <<>>, items)
PyDict(keys, items) == PyValue("dict", <<>>, 0, keys, items)

\* faulty variant: the truth value of the original is tested, not `is not None`
RehydrateValueTruthy(e, value) ==
    IF Restore(e, value) \notin {None, <<>>} THEN Restore(e, value) ELSE value

\* Vault.rehydrate_value
RehydrateValue(e, value) ==
    IF Restore(e, value) # None THEN Restore(e, value) ELSE value

\* faulty variant: the keys of a dict are rehydrated like its values
RECURSIVE RehydrateDictKeys(_, _)
RehydrateDictKeys(e, data) ==
    IF data.kind = "dict"
    THEN PyDict([i \in DOMAIN data.keys |-> RehydrateValue(e, data.keys[i])],
              [i \in DOMAIN data.items |-> RehydrateDictKeys(e, data.items[i])])
    ELSE IF data.kind = "list"
    THEN PyList([i \in DOMAIN data.items |-> RehydrateDictKeys(e, data.items[i])])
    ELSE IF data.kind = "str" THEN PyStr(RehydrateValue(e, data.s))
    ELSE data

\* Vault.rehydrate_dict
RECURSIVE RehydrateDict(_, _)
RehydrateDict(e, data) ==
    IF data.kind = "dict"
    THEN PyDict(data.keys,
              [i \in DOMAIN data.items |-> RehydrateDict(e, data.items[i])])
    ELSE IF data.kind = "list"
    THEN PyList([i \in DOMAIN data.items |-> RehydrateDict(e, data.items[i])])
    ELSE IF data.kind = "str" THEN PyStr(RehydrateValue(e, data.s))
    ELSE data

\* the placeholders the two draws of the generator give, and one never issued
PlaceholderA == Format(DefaultFormat, Uid("a"))
PlaceholderB == Format(DefaultFormat, Uid("b"))
UnknownPlaceholder == ValPrefix \o <<"z">>

\* the vault after the store calls `stores` (original and draw of each), the
\* k-th of them made at time k - 1
RECURSIVE VaultAfter(_)
VaultAfter(stores) ==
    IF stores = <<>> THEN EmptyEntries
    ELSE LET k == Len(stores)
         IN  Store(VaultAfter(SubSeq(stores, 1, k - 1)), stores[k].original,
                   DefaultFormat, stores[k].d, k - 1).entries

\* store is given a number, the empty string, or a text that has the form of
\* a placeholder
PriorVaults ==
    {VaultAfter(stores) :
        stores \in SeqsUpTo([original : {Num, <<>>, PlaceholderB}, d : HexPool],
                            0, MaxPrior)}

\* the arguments of the calls
ValuePool == {PlaceholderA, PlaceholderB, UnknownPlaceholder, Num, <<>>}
\* str and int leaves, lists of up to two leaves, dicts of them one of whose
\* keys is a placeholder
DataPool ==
    LET leaves == {PyStr(PlaceholderA), PyStr(UnknownPlaceholder), PyInt(7)}
        lists == {PyList(items) : items \in SeqsUpTo(leaves, 0, 2)}
    IN  leaves \cup lists
        \cup {PyDict(<<PlaceholderA, <<"k">>>>, <<leaf, list>>) :
                leaf \in leaves, list \in lists}
        \cup {PyDict(<<<<"k">>>>, <<PyDict(<<PlaceholderB>>, <<leaf>>)>>) :
                leaf \in leaves}
        \cup {PyDict(<<>>, <<>>)}
TextPool ==
    {<<>>,
     <<"<", "reading", ">">> \o PlaceholderA \o <<"</", "reading", ">">>,
     PlaceholderA \o <<" ">> \o PlaceholderB,
     PlaceholderA \o <<"5">>,
     ValPrefix \o PlaceholderA,
     <<"V">> \o PlaceholderA \o <<"A", "L", "_">> \o Uid("b"),
     UnknownPlaceholder \o <<",">> \o ValPrefix}

\* vault.restore(masked)
CallRestore ==
    /\ \E masked \in ValuePool :
            /\ ret' = Restore(entries, masked)
            /\ lastCall' = Called("restore", masked, "")
    /\ UNCHANGED <<entries, clock, issued, vaultFile, pipeVars>>

\* faulty variant: the entry is taken out of the vault as it is read
CallRehydrateValuePop ==
    /\ \E value \in ValuePool :
            /\ ret' = RehydrateValue(entries, value)
            /\ lastCall' = Called("rehydrate_value", value, "")
            /\ entries' = [p \in DOMAIN entries \ {value} |-> entries[p]]
    /\ UNCHANGED <<clock, issued, vaultFile, pipeVars>>

\* vault.rehydrate_value(value)
CallRehydrateValue ==
    /\ \E value \in ValuePool :
            /\ ret' = RehydrateValue(entries, value)
            /\ lastCall' = Called("rehydrate_value", value, "")
    /\ UNCHANGED <<entries, clock, issued, vaultFile, pipeVars>>

\* vault.rehydrate_dict(data), data from the pool or what the last
\* rehydrate_dict returned
CallRehydrateDict ==
    /\ \E data \in DataPool \cup
                   (IF lastCall.op = "rehydrate_dict" THEN {ret} ELSE {}) :
            /\ ret' = RehydrateDict(entries, data)
            /\ lastCall' = Called("rehydrate_dict", data, "")
    /\ UNCHANGED <<entries, clock, issued, vaultFile, pipeVars>>

\* vault.rehydrate_xml(xml_content), the text from the pool or what the last
\* rehydrate_xml returned
CallRehydrateXml ==
    /\ \E xml \in TextPool \cup
                  (IF lastCall.op = "rehydrate_xml" THEN {ret} ELSE {}) :
            /\ ret' = RehydrateXml(entries, xml)
            /\ lastCall' = Called("rehydrate_xml", xml, "")
    /\ UNCHANGED <<entries, clock, issued, vaultFile, pipeVars>>

InitRehydrate ==
    /\ entries \in PriorVaults
    /\ clock = MaxPrior
    /\ issued = <<>>
    /\ ret = None
    /\ lastCall = NoCall
    /\ vaultFile = NoFile
    /\ inputFile = Malformed
    /\ policy = Policy(FALSE, <<>>)
    /\ config = DefaultConfig
    /\ tagMapArg = NoTagMap
    /\ pc = "idle"
    /\ tree = NoTree
    /\ stages = <<>>
    /\ outFile = NoFile
    /\ policyFile = NoFile
    /\ threads = <<>>

NextRehydrate ==
    \/ CallRestore
    \/ CallRehydrateValue
    \/ CallRehydrateDict
    \/ CallRehydrateXml

SpecRehydrate == InitRehydrate /\ [][NextRehydrate]_vars


(***************************************************************************)
(* Properties of rehydration, checked under SpecRehydrate.                 *)
(***************************************************************************)
\* C12: restore, rehydrate_value, rehydrate_dict and rehydrate_xml never
\* change the vault: across every such call, for known and unknown
\* placeholders alike, the entries are what they were before it.
C12_ReadsLeaveVaultUnchanged ==
    [][lastCall'.op \in {"restore", "rehydrate_value", "rehydrate_dict",
                         "rehydrate_xml"} => entries' = entries]_vars

\* rehydrate_value has been called on a placeholder the vault knows
C12_Witness ==
    /\ lastCall.op = "rehydrate_value"
    /\ lastCall.arg \in DOMAIN entries
    /\ ret # lastCall.arg

\* C13: rehydrate_value(v) returns the stored original when v is a key of the
\* vault (also when that original is the empty string) and v itself
\* otherwise, and never raises; restore of an unknown placeholder returns
\* None and does not raise.
C13_RehydrateValueFailsOpen ==
    /\ lastCall.op = "rehydrate_value" =>
            /\ lastCall.raised = ""
            /\ ret = IF lastCall.arg \in DOMAIN entries
                     THEN entries[lastCall.arg].original_value
                     ELSE lastCall.arg
    /\ (lastCall.op = "restore" /\ lastCall.arg \notin DOMAIN entries) =>
            /\ lastCall.raised = ""
            /\ ret = None

\* rehydrate_value has returned the empty original of a known placeholder
C13_Witness ==
    /\ lastCall.op = "rehydrate_value"
    /\ lastCall.arg \in DOMAIN entries
    /\ entries[lastCall.arg].original_value = <<>>
    /\ ret = <<>>

\* out has the shape of data, its leaf strings rehydrated with e and
\* everything else as in data
RECURSIVE Mirrors(_, _, _)
Mirrors(e, data, out) ==
    /\ out.kind = data.kind
    /\ Len(out.items) = Len(data.items)
    /\ out.keys = data.keys
    /\ out.n = data.n
    /\ \A i \in DOMAIN data.items : Mirrors(e, data.items[i], out.items[i])
    /\ out.s = IF data.kind = "str" /\ data.s \in DOMAIN e
               THEN e[data.s].original_value
               ELSE data.s

\* C14: rehydrate_dict returns a value of the shape of its input (the same
\* keys in the same order, the same lengths and positions) in which every
\* leaf string is its rehydrate_value and every other scalar is unchanged;
\* keys are never rewritten.
C14_RehydrateDictMirrorsShape ==
    lastCall.op = "rehydrate_dict" => Mirrors(entries, lastCall.arg, ret)

\* rehydrate_dict has restored a value of a dict one of whose keys is itself
\* a known placeholder
C14_Witness ==
    /\ lastCall.op = "rehydrate_dict"
    /\ lastCall.arg.kind = "dict"
    /\ \E i \in DOMAIN lastCall.arg.keys : lastCall.arg.keys[i] \in DOMAIN entries
    /\ ret # lastCall.arg

\* what C15 says of a text: at every position where a maximal VAL_ run starts
\* that is a key of e the run is replaced by its original; every other
\* character stays
RECURSIVE ClaimedRehydrate(_, _)
ClaimedRehydrate(e, xml) ==
    IF xml = <<>> THEN <<>>
    ELSE LET m == MatchAtFront(xml)
         IN  IF m > 0 /\ SubSeq(xml, 1, m) \in DOMAIN e
             THEN e[SubSeq(xml, 1, m)].original_value
                    \o ClaimedRehydrate(e, SubSeq(xml, m + 1, Len(xml)))
             ELSE <<Head(xml)>> \o ClaimedRehydrate(e, Tail(xml))

\* C15: rehydrate_xml replaces every maximal substring VAL_ + alphanumerics
\* that is a known placeholder by its original, and leaves unknown ones and
\* all other characters unchanged and in order.
C15_EveryKnownRunReplaced ==
    lastCall.op = "rehydrate_xml" =>
        ret = ClaimedRehydrate(entries, lastCall.arg)

\* C16: rehydration is idempotent: rehydrate_xml of what rehydrate_xml
\* returned returns it unchanged, and likewise rehydrate_dict.
C16_RehydrationIdempotent ==
    [][(/\ lastCall.op \in {"rehydrate_xml", "rehydrate_dict"}
        /\ lastCall'.op = lastCall.op
        /\ lastCall'.arg = ret) => ret' = ret]_vars


(***************************************************************************)
(* Persistence: store, save and load on Vault objects that share one path  *)
(* (src/src/vault.py), the file at the path being whatever was there       *)
(* before.                                                                 *)
(***************************************************************************)
\* what the file at the path holds before the first call: nothing, a vault
\* saved earlier, or content that is not a saved vault
FilePool ==
    LET entry == VaultEntry(PlaceholderB, Num, 0)
        typed == [f \in EntryFields |-> ToJson(entry[f])]
    IN  {NoFile,
         File(JsonDump(PlaceholderB :> entry)),
         File(JsonDump(EmptyEntries)),
         File(NotJson),
         File(JOther("array")),
         File(JObject(PlaceholderB :> JString(Num))),
         File(JObject(PlaceholderB :>
                JObject([f \in EntryFields \ {"created_at"} |-> typed[f]]))),
         File(JObject(PlaceholderB :>
                JObject([typed EXCEPT
                            !["original_value"] = JOther("number")])))}

\* Vault(path): another vault object for the same path
CallInit ==
    /\ entries' = EmptyEntries
    /\ ret' = None
    /\ lastCall' = Called("__init__", <<>>, "")
    /\ UNCHANGED <<clock, issued, vaultFile, pipeVars>>

\* vault.store(original)
CallStore ==
    /\ clock < MaxPrior
    /\ \E original \in {Num, <<>>}, d \in HexPool :
            LET r == Store(entries, original, DefaultFormat, d, clock)
            IN  /\ entries' = r.entries
                /\ ret' = r.masked
                /\ lastCall' = Called("store", original, "")
                /\ issued' = Append(issued, [node |-> 0, original |-> original,
                                             masked |-> r.masked])
    /\ clock' = clock + 1
    /\ UNCHANGED <<vaultFile, pipeVars>>

\* vault.save()
CallSave ==
    /\ vaultFile' = File(JsonDump(entries))
    /\ ret' = None
    /\ lastCall' = Called("save", <<>>, "")
    /\ UNCHANGED <<entries, clock, issued, pipeVars>>

\* vault.load()
CallLoad ==
    /\ LET r == Load(entries, vaultFile)
       IN  /\ entries' = r.entries
           /\ lastCall' = Called("load", <<>>, r.raised)
    /\ ret' = None
    /\ UNCHANGED <<clock, issued, vaultFile, pipeVars>>

InitPersist ==
    /\ entries = EmptyEntries
    /\ clock = 0
    /\ issued = <<>>
    /\ ret = None
    /\ lastCall = NoCall
    /\ vaultFile \in FilePool
    /\ inputFile = Malformed
    /\ policy = Policy(FALSE, <<>>)
    /\ config = DefaultConfig
    /\ tagMapArg = NoTagMap
    /\ pc = "idle"
    /\ tree = NoTree
    /\ stages = <<>>
    /\ outFile = NoFile
    /\ policyFile = NoFile
    /\ threads = <<>>

NextPersist ==
    \/ CallInit
    \/ CallStore
    \/ CallSave
    \/ CallLoad

SpecPersist == InitPersist /\ [][NextPersist]_vars

\* the file holds a mapping from placeholders to records with exactly the
\* fields of VaultEntry
IsEntryMapping(data) ==
    /\ data.kind = "object"
    /\ \A key \in DOMAIN data.members :
            /\ data.members[key].kind = "object"
            /\ DOMAIN data.members[key].members = EntryFields

\* the file holds a vault: such a mapping in which every field is a string,
\* as VaultEntry declares them
IsVaultFile(data) ==
    /\ IsEntryMapping(data)
    /\ \A key \in DOMAIN data.members : \A f \in EntryFields :
            data.members[key].members[f].kind = "string"

\* the entries the file holds
FileEntries(data) ==
    [key \in DOMAIN data.members |->
        [masked_value |-> FromJson(data.members[key].members["masked_value"]),
         original_value |-> FromJson(data.members[key].members["original_value"]),
         created_at |-> FromJson(data.members[key].members["created_at"])]]

\* C17: load sets the entries to exactly those of the storage file when the
\* file exists (what the vault held is discarded, not merged), a file written
\* by save holds exactly the entries saved, and load leaves the entries
\* unchanged without error when the file does not exist.
C17_LoadReplacesEntries ==
    [][/\ lastCall'.op = "save" =>
            /\ IsEntryMapping(vaultFile'.data)
            /\ FileEntries(vaultFile'.data) = entries
       /\ (lastCall'.op = "load" /\ vaultFile.exists
                                 /\ IsEntryMapping(vaultFile.data)) =>
            /\ lastCall'.raised = ""
            /\ entries' = FileEntries(vaultFile.data)
       /\ (lastCall'.op = "load" /\ ~vaultFile.exists) =>
            /\ lastCall'.raised = ""
            /\ entries' = entries]_vars

\* a vault that held an entry of its own has loaded a file saved with
\* another entry, and holds that one only
C17_Witness ==
    /\ lastCall.op = "load"
    /\ issued # <<>>
    /\ vaultFile.exists
    /\ IsVaultFile(vaultFile.data)
    /\ DOMAIN entries # {}
    /\ \E i \in DOMAIN issued : issued[i].masked \notin DOMAIN entries

\* C18: load on a file that exists but is corrupt (not parsable, or not a
\* mapping of placeholder to entry records) ends in an error that reaches the
\* caller, and the entries are what they were before it.
C18_CorruptFileIsAnError ==
    [][(lastCall'.op = "load" /\ vaultFile.exists
                              /\ ~IsVaultFile(vaultFile.data)) =>
            /\ lastCall'.raised # ""
            /\ entries' = entries]_vars


(***************************************************************************)
(* Failure of apply_gatekeeper, checked under Spec.                        *)
(***************************************************************************)
\* C19: when apply_gatekeeper fails, on malformed input (before Stage A and
\* before any vault.store) or during a stage, neither the sanitized output
\* file nor the vault file has been written by that call.
C19_FailureWritesNothing ==
    pc = "failed" =>
        /\ outFile = NoFile
        /\ policyFile = NoFile
        /\ threads = <<>>
        /\ vaultFile = NoFile
        /\ ~inputFile.wellFormed =>
                stages = <<>> /\ issued = <<>> /\ entries = EmptyEntries

\* a run has failed after Stage A stored values and Stage B ran
C19_Witness ==
    /\ pc = "failed"
    /\ stages = <<"A", "B">>
    /\ DOMAIN entries # {}


(***************************************************************************)
(* generate_policy (src/src/policy_engine.py).                             *)
(***************************************************************************)
\* any(kw in tag.lower() for kw in _SENSITIVE_KEYWORDS), for the tags of the
\* documents: "coordinates" holds "coord", the other three are keywords
HasSensitiveKeyword(tag) ==
    tag \in {"pressure", "temperature", "velocity", "coordinates"}

\* the local names of the element children of node, in order
ChildTags(doc, node) ==
    SelectSeq([i \in DOMAIN node.kids |->
                  IF doc[node.kids[i]].isElem THEN doc[node.kids[i]].tag ELSE ""],
              LAMBDA ctag : ctag # "")

\* for ctag, count in child_tags.items(), from the i-th child on: a key of
\* the dict at its first occurrence; seen_tags holds <<tag>> and <<tag, ctag>>
RECURSIVE RepeatedChildren(_, _, _, _)
RepeatedChildren(st, tag, ctags, i) ==
    IF i > Len(ctags) THEN st
    ELSE LET ctag == ctags[i]
             count == Cardinality({j \in DOMAIN ctags : ctags[j] = ctag})
             first == \A j \in 1..(i - 1) : ctags[j] # ctag
         IN  IF first /\ count >= 2 /\ <<tag, ctag>> \notin st.seen
             THEN RepeatedChildren(
                     [seen |-> st.seen \cup {<<tag, ctag>>},
                      rules |-> Append(st.rules, ShuffleRule(tag, ctag))],
                     tag, ctags, i + 1)
             ELSE RepeatedChildren(st, tag, ctags, i + 1)

\* the body of the loop of generate_policy for one element
PolicyBody(st, doc, n) ==
    LET node == doc[n]
        tag == node.tag
        text == Strip(node.text)
        masked == [seen |-> st.seen \cup {<<tag>>},
                   rules |-> Append(st.rules, MaskRule(tag))]
    IN  IF ~node.isElem THEN st
        ELSE IF HasSensitiveKeyword(tag) /\ <<tag>> \notin st.seen THEN masked
        ELSE IF text # <<>> /\ FullMatchNumeric(text) /\ <<tag>> \notin st.seen
        THEN masked
        ELSE RepeatedChildren(st, tag, ChildTags(doc, node), 1)

RECURSIVE PolicyLoop(_, _, _)
PolicyLoop(st, doc, order) ==
    IF order = <<>> THEN st
    ELSE PolicyLoop(PolicyBody(st, doc, Head(order)), doc, Tail(order))

\* generate_policy(xml_path) for a file that parses to doc
GeneratePolicy(doc, now) ==
    [Policy(FALSE, PolicyLoop([seen |-> {}, rules |-> <<>>], doc,
                              PreOrder(doc, Root)).rules)
        EXCEPT !.created_at = IsoFormat(now)]

CallGeneratePolicy ==
    /\ pc = "idle"
    /\ IF inputFile.wellFormed
       THEN /\ policy' = GeneratePolicy(inputFile.doc, clock)
            /\ lastCall' = Called("generate_policy", <<>>, "")
       ELSE /\ lastCall' = Called("generate_policy", <<>>, "XMLSyntaxError")
            /\ UNCHANGED policy
    /\ UNCHANGED <<entries, clock, issued, ret, vaultFile, inputFile, policyFile, threads, config,
                   tagMapArg, pc, tree, stages, outFile>>

\* _rule_to_dict: the key "parameters" is written only for truthy parameters
RuleToDict(rule) ==
    IF rule.parameters.given /\ rule.parameters.items # {}
    THEN [tag_pattern |-> rule.tag_pattern, action |-> rule.action,
          parameters |-> rule.parameters.items]
    ELSE [tag_pattern |-> rule.tag_pattern, action |-> rule.action]

\* _rule_from_dict: d.get("parameters") is None for a missing key
RuleFromDict(d) ==
    Rule(d.tag_pattern, d.action,
         IF "parameters" \in DOMAIN d THEN Parameters(d.parameters)
         ELSE NoParameters)

\* save_policy: the JSON object written.  json.dumps and json.loads keep str,
\* bool, None, lists and dicts with str keys as they are, so the object stands
\* for the file's text
SavePolicy(p) ==
    [version |-> p.version, global_masking |-> p.global_masking,
     rules |-> [i \in DOMAIN p.rules |-> RuleToDict(p.rules[i])],
     created_at |-> p.created_at]

\* load_policy: data.get with its defaults for the keys a file may lack
LoadPolicy(data) ==
    [version |-> IF "version" \in DOMAIN data THEN data.version ELSE "1.0",
     global_masking |-> IF "global_masking" \in DOMAIN data
                        THEN data.global_masking ELSE FALSE,
     rules |-> IF "rules" \in DOMAIN data
               THEN [i \in DOMAIN data.rules |-> RuleFromDict(data.rules[i])]
               ELSE <<>>,
     created_at |-> IF "created_at" \in DOMAIN data THEN data.created_at
                    ELSE None]

\* policies built by hand, as a caller or a test builds them
PolicyPool ==
    {Policy(FALSE, <<>>),
     [MaskShufflePolicy EXCEPT !.version = "2.0"],
     Policy(TRUE, <<MaskRule("pressure"),
                    Rule("reading", "preserve", Parameters({}))>>)}

CallSavePolicy ==
    /\ pc = "idle"
    /\ policyFile' = File(SavePolicy(policy))
    /\ lastCall' = Called("save_policy", <<>>, "")
    /\ UNCHANGED <<entries, clock, issued, ret, vaultFile, inputFile, threads,
                   policy, config, tagMapArg, pc, tree, stages, outFile>>

CallLoadPolicy ==
    /\ pc = "idle"
    /\ policyFile.exists
    /\ ret' = LoadPolicy(policyFile.data)
    /\ lastCall' = Called("load_policy", <<>>, "")
    /\ UNCHANGED <<entries, clock, issued, vaultFile, inputFile, policyFile,
                   threads, policy, config, tagMapArg, pc, tree, stages, outFile>>

\* <root><pressure>123.45<velocity>-2</velocity><velocity>-2</velocity>
\* </pressure><pressure>123.45<velocity>-2</velocity><velocity>-2</velocity>
\* </pressure></root>: two parents with the same tag and repeated children
TwoParentsDoc ==
    LET once == Build(<<Elem("", "pressure", <<>>, Num),
                        Elem("", "pressure", <<>>, Num)>>,
                      <<Elem("", "velocity", <<>>, NegNum),
                        Elem("", "velocity", <<>>, NegNum)>>)
    IN  [n \in 1..7 |->
            IF n = 3 THEN [once[3] EXCEPT !.kids = <<6, 7>>]
            ELSE IF n > 5 THEN Elem("", "velocity", <<>>, NegNum)
            ELSE once[n]]

InitPolicy ==
    /\ entries = EmptyEntries
    /\ clock = 0
    /\ issued = <<>>
    /\ ret = None
    /\ lastCall = NoCall
    /\ vaultFile = NoFile
    /\ inputFile \in {WellFormed(d) : d \in DocPool \cup {TwoParentsDoc}}
                        \cup {Malformed}
    /\ policy \in PolicyPool
    /\ config = DefaultConfig
    /\ tagMapArg = NoTagMap
    /\ pc = "idle"
    /\ tree = NoTree
    /\ stages = <<>>
    /\ outFile = NoFile
    /\ policyFile = NoFile
    /\ threads = <<>>

NextPolicy ==
    \/ CallGeneratePolicy
    \/ CallSavePolicy
    \/ CallLoadPolicy

SpecPolicy == InitPolicy /\ [][NextPolicy]_vars

\* C20: in generate_policy the repeated-child check is independent of the
\* mask checks: for every element, also one whose tag has just produced a
\* mask_value rule, and every child tag occurring at least twice among its
\* children, the policy holds a shuffle_siblings rule for that tag and child.
C20_RepeatedChildrenAlwaysChecked ==
    (lastCall.op = "generate_policy" /\ lastCall.raised = "") =>
        \A n \in DOMAIN inputFile.doc :
            LET node == inputFile.doc[n]
                ctags == ChildTags(inputFile.doc, node)
            IN  node.isElem =>
                    \A i \in DOMAIN ctags :
                        (\E j \in DOMAIN ctags : j # i /\ ctags[j] = ctags[i]) =>
                            \E k \in DOMAIN policy.rules :
                                policy.rules[k] = ShuffleRule(node.tag, ctags[i])


(***************************************************************************)
(* Successive runs of apply_gatekeeper on the same input, vault path and   *)
(* output path (src/src/gatekeeper.py, src/src/config.py).                 *)
(***************************************************************************)
\* masking.uuid_format = "ID_{uuid}"
IdFormat == [pre |-> <<"I", "D", "_">>, post |-> <<>>]

\* <node><pressure>123.45<velocity>-2</velocity><velocity>-2</velocity>
\* </pressure><reading>1.5k</reading></node>: the root's tag is one of the
\* default target_tags
TargetTagDoc ==
    [Build(<<Elem("", "pressure", <<>>, Num),
             Elem("", "reading", <<>>, UnitNum)>>,
           <<Elem("", "velocity", <<>>, NegNum),
             Elem("", "velocity", <<>>, NegNum)>>)
        EXCEPT ![Root].tag = "node"]

\* the arguments of the runs
RunPool ==
    {Call(GlobalMaskPolicy, DefaultConfig, NoTagMap),
     Call(GlobalMaskPolicy,
          [DefaultConfig EXCEPT !.masking.uuid_format = IdFormat], NoTagMap),
     Call(MaskShufflePolicy,
          PolicyEngineConfig(DefaultValuePattern, FALSE, NoSeed), NoTagMap),
     Call(ShufflePolicy,
          PolicyEngineConfig(DefaultValuePattern, TRUE, Seed(4)), NoTagMap),
     Call(PreservePolicy, DefaultConfig, NoTagMap)}

\* apply_gatekeeper is called again with the same arguments once the first
\* run has returned or raised; lastCall.arg keeps what the first run issued
Rerun ==
    /\ pc \in {"done", "failed"}
    /\ lastCall = NoCall
    /\ lastCall' = Called("apply_gatekeeper", issued, "")
    /\ issued' = <<>>
    /\ pc' = "parse"
    /\ tree' = NoTree
    /\ stages' = <<>>
    /\ UNCHANGED <<entries, clock, ret, vaultFile, inputFile, policyFile, threads,
                   policy, config, tagMapArg, outFile>>

InitRuns ==
    /\ entries = EmptyEntries
    /\ clock = 0
    /\ issued = <<>>
    /\ ret = None
    /\ lastCall = NoCall
    /\ vaultFile = NoFile
    /\ inputFile \in {WellFormed(ScenarioDoc), WellFormed(TargetTagDoc)}
    /\ \E run \in RunPool :
            /\ policy = run.policy
            /\ config = run.config
            /\ tagMapArg = run.tag_map
    /\ pc = "parse"
    /\ tree = NoTree
    /\ stages = <<>>
    /\ outFile = NoFile
    /\ policyFile = NoFile
    /\ threads = <<>>

NextRuns ==
    \/ Parse
    \/ MaskStage
    \/ ShuffleStage
    \/ ShadowStage
    \/ WriteOutput
    \/ SaveVault
    \/ Rerun

SpecRuns == InitRuns /\ [][NextRuns]_vars

\* C21: every placeholder that Stage A writes into the document is the
\* configured template masking.uuid_format with an identifier substituted
C21_PlaceholdersFollowConfiguredFormat ==
    pc \in {"shuffle", "shadow"} /\ tree.kind = "ElementTree" =>
        \A i \in DOMAIN issued :
            /\ tree.doc[issued[i].node].text = issued[i].masked
            /\ \E d \in HexPool :
                    issued[i].masked = Format(config.masking.uuid_format, Uid(d))

\* C22: the identifier that store substitutes into the template carries at
\* least 64 bits: at least 16 hex digits of 4 bits each
C22_IdentifierHasSixtyFourBits ==
    \A i \in DOMAIN issued :
        4 * (Len(issued[i].masked) - Len(DefaultFormat.pre)
                - Len(DefaultFormat.post)) >= 64


(***************************************************************************)
(* Two shuffle_siblings invocations on two worker threads, each on the     *)
(* tree it parsed itself (src/src/gatekeeper.py, src/src/server.py); one   *)
(* step per statement that draws from or creates a generator.              *)
(***************************************************************************)
Threads == {1, 2}

\* faulty variant: one module-level generator (random.shuffle) for every call
GeneratorShared(t) == 1

\* the generator an invocation draws from: the local `rng` it created
GeneratorOf(t) == t

\* an invocation about to run: its tree, its seed, its locals unset
Invocation(doc, seed) ==
    [pc |-> "call", input |-> doc, seed |-> seed, doc |-> doc, rng |-> 0,
     s0 |-> 0, at |-> Root]

\* rng = random.Random(shuffling_config.seed); root = tree.getroot()
ShuffleBegin(t) ==
    /\ threads[t].pc = "call"
    /\ \E s0 \in RngInitial(threads[t].seed) :
            threads' = [threads EXCEPT ![t].pc = "loop", ![t].s0 = s0,
                                       ![GeneratorOf(t)].rng = s0]
    /\ stages' = IF \E u \in Threads \ {t} : threads[u].pc = "loop"
                 THEN <<"overlap">> ELSE stages
    /\ UNCHANGED <<entries, clock, issued, ret, lastCall, vaultFile, inputFile,
                   policy, config, tagMapArg, pc, tree, outFile, policyFile>>

\* one pass of `for elem in root.iter()`; after the last one the str is returned
ShuffleStep(t) ==
    /\ threads[t].pc = "loop"
    /\ LET th == threads[t]
           g == GeneratorOf(t)
           st == ShuffleBody([doc |-> th.doc, rng |-> threads[g].rng], th.at,
                             ShuffleTags(config.shuffling,
                                         RulesWith(policy.rules, "shuffle_siblings")))
           after == NextNode(th.doc, th.at)
       IN  threads' = [threads EXCEPT
                           ![t].doc = st.doc,
                           ![t].at = after,
                           ![t].pc = IF after = 0 THEN "done" ELSE "loop",
                           ![g].rng = st.rng]
    /\ stages' = IF \E u \in Threads \ {t} : threads[u].pc = "loop"
                 THEN <<"overlap">> ELSE stages
    /\ UNCHANGED <<entries, clock, issued, ret, lastCall, vaultFile, inputFile,
                   policy, config, tagMapArg, pc, tree, outFile, policyFile>>

InitThreads ==
    /\ entries = EmptyEntries
    /\ clock = 0
    /\ issued = <<>>
    /\ ret = None
    /\ lastCall = NoCall
    /\ vaultFile = NoFile
    /\ inputFile = Malformed
    /\ policy = ShufflePolicy
    /\ config = DefaultConfig
    /\ tagMapArg = NoTagMap
    /\ pc = "idle"
    /\ tree = NoTree
    /\ stages = <<>>
    /\ outFile = NoFile
    /\ policyFile = NoFile
    /\ threads \in [Threads ->
            {Invocation(doc, seed) :
                doc \in {TargetTagDoc, [TargetTagDoc EXCEPT ![Root].tag = "root"]},
                seed \in {Seed(4), Seed(12), NoSeed}}]

NextThreads == \E t \in Threads : ShuffleBegin(t) \/ ShuffleStep(t)

SpecThreads == InitThreads /\ [][NextThreads]_vars

\* C23: whatever the interleaving of two shuffle_siblings invocations, each
\* one ends with the child order it would have produced running alone from
\* the generator state its own seed gave it
C23_ConcurrentShufflesDoNotInterfere ==
    \A t \in Threads :
        threads[t].pc = "done" =>
            threads[t].doc =
                ShuffleSiblings(threads[t].input,
                                ShufflingConfig(TRUE, threads[t].seed),
                                RulesWith(policy.rules, "shuffle_siblings"),
                                threads[t].s0)

\* both invocations have returned after running interleaved, each having
\* reordered children, from different generator states
C23_Witness ==
    /\ stages = <<"overlap">>
    /\ \A t \in Threads :
            /\ threads[t].pc = "done"
            /\ threads[t].doc # threads[t].input
    /\ threads[1].s0 # threads[2].s0


\* C24: a policy written by save_policy and read back by load_policy is
\* identical to the original: version, global_masking, created_at, and the
\* rules in order with their tag_pattern, action and parameters
C24_PolicyRoundTrip ==
    [][lastCall.op = "save_policy" /\ lastCall'.op = "load_policy" =>
            ret' = policy]_vars


\* C25: Stage A is gated by the policy as a whole.  With global_masking or at
\* least one mask_value rule, every element whose trimmed text fully matches
\* value_pattern leaves the stage holding a placeholder of the vault, whatever
\* its tag and the rules' tag_patterns; with neither, the stage changes no
\* text and the vault stays empty
C25_StageAGatedByWholePolicy ==
    [][pc = "mask" /\ pc' = "shuffle" =>
            IF \/ policy.global_masking
               \/ \E i \in DOMAIN policy.rules : policy.rules[i].action = "mask_value"
            THEN \A n \in DOMAIN tree.doc :
                    tree.doc[n].isElem /\ MatchesPattern(tree.doc[n].text) =>
                        /\ tree'.doc[n].text # tree.doc[n].text
                        /\ tree'.doc[n].text \in DOMAIN entries'
            ELSE /\ tree' = tree
                 /\ entries' = EmptyEntries]_vars

\* Stage A has run under a policy without global_masking and has masked an
\* element whose tag no mask_value rule names
C25_Witness ==
    /\ pc = "shuffle"
    /\ ~policy.global_masking
    /\ \E i \in DOMAIN issued :
            /\ \A j \in DOMAIN policy.rules :
                    policy.rules[j].action = "mask_value" =>
                        policy.rules[j].tag_pattern # inputFile.doc[issued[i].node].tag
            /\ tree.doc[issued[i].node].text = issued[i].masked


Occurrence(doc, n, rule) ==
    /\ doc[n].isElem
    /\ doc[n].tag = rule.tag_pattern
    /\ IF rule.action = "mask_value"
       THEN \/ HasSensitiveKeyword(doc[n].tag)
            \/ /\ Strip(doc[n].text) # <<>>
               /\ FullMatchNumeric(Strip(doc[n].text))
       ELSE \E c \in Range(ChildTags(doc, doc[n])) :
                /\ <<"child_tag", c>> \in rule.parameters.items
                /\ Cardinality({j \in DOMAIN doc[n].kids :
                        doc[doc[n].kids[j]].isElem /\ doc[doc[n].kids[j]].tag = c}) >= 2

\* the pre-order positions at which the rule occurs in doc
Occurrences(doc, rule) ==
    {i \in DOMAIN PreOrder(doc, Root) : Occurrence(doc, PreOrder(doc, Root)[i], rule)}

\* C27: the rules of generate_policy are de-duplicated, at most one
\* mask_value rule per tag and one shuffle_siblings rule per (parent tag,
\* child tag) pair, and stand in the pre-order of their first occurrences
C27_RulesDeduplicatedInFirstOccurrenceOrder ==
    lastCall.op = "generate_policy" /\ lastCall.raised = "" =>
        LET doc == inputFile.doc
            rules == policy.rules
        IN  /\ \A i, j \in DOMAIN rules :
                    /\ rules[i].action = rules[j].action
                    /\ rules[i].tag_pattern = rules[j].tag_pattern
                    /\ rules[i].parameters = rules[j].parameters
                    => i = j
            /\ \A i \in DOMAIN rules : Occurrences(doc, rules[i]) # {}
            /\ \A i, j \in DOMAIN rules :
                    i < j =>
                        \E a \in Occurrences(doc, rules[i]) :
                            \A b \in Occurrences(doc, rules[j]) : a <= b


\* the entries of the persisted vault file
Persisted == Load(EmptyEntries, vaultFile).entries

\* the second of two runs on the same vault path has returned
SecondRunDone == pc = "done" /\ lastCall.op = "apply_gatekeeper"

\* C28 as stated: after two successive runs on the same vault path the
\* persisted vault contains exactly the placeholders issued by the second run
\* and none of those issued by the first
C28_SecondRunLeavesNoFirstRunPlaceholder ==
    SecondRunDone =>
        /\ DOMAIN Persisted = {issued[i].masked : i \in DOMAIN issued}
        /\ \A i \in DOMAIN lastCall.arg :
                lastCall.arg[i].masked \notin DOMAIN Persisted

\* C28, amended: after two successive runs on the same vault path the
\* persisted vault is exactly the vault of the second run, which started
\* empty; a placeholder of the first run is in it only as a placeholder the
\* second run issued again
C28_SecondRunOverwritesVault ==
    SecondRunDone =>
        /\ Persisted = entries
        /\ DOMAIN Persisted = {issued[i].masked : i \in DOMAIN issued}
        /\ \A p \in DOMAIN Persisted :
                \E i \in DOMAIN issued :
                    /\ issued[i].masked = p
                    /\ Persisted[p].original_value = issued[i].original
        /\ \A i \in DOMAIN lastCall.arg :
                lastCall.arg[i].masked \in DOMAIN Persisted =>
                    \E j \in DOMAIN issued :
                        issued[j].masked = lastCall.arg[i].masked

\* both runs issued placeholders, the first run's vault was saved, and one
\* of its placeholders is gone from the file the second run wrote
C28_Witness ==
    /\ SecondRunDone
    /\ issued # <<>>
    /\ \E i \in DOMAIN lastCall.arg :
            lastCall.arg[i].masked \notin DOMAIN Persisted


(***************************************************************************)
(* Two read_safe_structure requests in flight (src/src/server.py): each    *)
(* runs apply_gatekeeper on a worker thread with the configured vault path *)
(* and, for the same input file, the same output path, then reads the      *)
(* output file.  The steps of apply_gatekeeper up to Stage C touch only    *)
(* the thread's own tree and Vault and make one step; each file access is  *)
(* a step of its own.                                                      *)
(***************************************************************************)
\* a request whose worker has not started: no tree, an empty Vault, no content
Request == [pc |-> "run", doc |-> <<>>, entries |-> EmptyEntries, content |-> <<>>]

\* apply_gatekeeper from etree.parse to _apply_tag_shadowing
RequestSanitize(t) ==
    /\ threads[t].pc = "run"
    /\ \E draws \in
            [1..Len(Matching(inputFile.doc, config.masking.value_pattern)) -> HexPool] :
            LET r == MaskValues(inputFile.doc, config.masking, EmptyEntries, draws,
                                clock)
                a == IF MaskingActive(policy) THEN r
                     ELSE [r EXCEPT !.doc = inputFile.doc, !.entries = EmptyEntries,
                                    !.clock = clock]
            IN  /\ threads' =
                        IF ShufflingActive(config, policy)
                        THEN [threads EXCEPT ![t].pc = "failed"]
                        ELSE [threads EXCEPT
                                ![t].pc = "write",
                                ![t].doc = ApplyTagShadowing(a.doc,
                                                             EffectiveMap(tagMapArg)),
                                ![t].entries = a.entries]
                /\ clock' = a.clock
    /\ UNCHANGED <<entries, issued, ret, lastCall, vaultFile, inputFile, policy,
                   config, tagMapArg, pc, tree, stages, outFile, policyFile>>

\* tree.write(str(sanitized_path), ...)
RequestWrite(t) ==
    /\ threads[t].pc = "write"
    /\ outFile' = File(Serialize(threads[t].doc))
    /\ threads' = [threads EXCEPT ![t].pc = "save"]
    /\ UNCHANGED <<entries, clock, issued, ret, lastCall, vaultFile, inputFile,
                   policy, config, tagMapArg, pc, tree, stages, policyFile>>

\* vault.save(); return sanitized_path, vault_path
RequestSave(t) ==
    /\ threads[t].pc = "save"
    /\ vaultFile' = File(JsonDump(threads[t].entries))
    /\ threads' = [threads EXCEPT ![t].pc = "read"]
    /\ UNCHANGED <<entries, clock, issued, ret, lastCall, inputFile, policy, config,
                   tagMapArg, pc, tree, stages, outFile, policyFile>>

\* sanitized_content = sanitized_path.read_text(); return [TextContent(...)]
RequestRead(t) ==
    /\ threads[t].pc = "read"
    /\ threads' = [threads EXCEPT ![t].pc = "returned", ![t].content = outFile.data]
    /\ UNCHANGED <<entries, clock, issued, ret, lastCall, vaultFile, inputFile,
                   policy, config, tagMapArg, pc, tree, stages, outFile, policyFile>>

InitRequests ==
    /\ entries = EmptyEntries
    /\ clock = 0
    /\ issued = <<>>
    /\ ret = None
    /\ lastCall = NoCall
    /\ vaultFile = NoFile
    /\ inputFile \in {WellFormed(ScenarioDoc), WellFormed(TargetTagDoc)}
    /\ policy \in {GlobalMaskPolicy, MaskRulePolicy}
    /\ config = DefaultConfig
    /\ tagMapArg = NoTagMap
    /\ pc = "idle"
    /\ tree = NoTree
    /\ stages = <<>>
    /\ outFile = NoFile
    /\ policyFile = NoFile
    /\ threads = [t \in Threads |-> Request]

NextRequests ==
    \E t \in Threads :
        \/ RequestSanitize(t)
        \/ RequestWrite(t)
        \/ RequestSave(t)
        \/ RequestRead(t)

SpecRequests == InitRequests /\ [][NextRequests]_vars

\* C29: whatever the interleaving of two read_safe_structure requests, once
\* both have returned every placeholder contained in the content returned to
\* either caller is a key of the persisted vault file
C29_ReturnedPlaceholdersRestorable ==
    (\A t \in Threads : threads[t].pc = "returned") =>
        \A t \in Threads, d \in HexPool :
            Contains(threads[t].content, Format(DefaultFormat, Uid(d))) =>
                Restore(Persisted, Format(DefaultFormat, Uid(d))) # None


(***************************************************************************)
(* _resolve_input_path (src/src/server.py).  A path is the sequence of its *)
(* components below the root, each a str; a filepath argument is such a    *)
(* sequence with the flag Path.is_absolute().                              *)
(***************************************************************************)
DataName == <<"d", "a", "t", "a">>
InputName == <<"i", "n", "p", "u", "t">>
\* a sibling of the input directory whose name begins with its name
SiblingName == InputName \o <<"2">>
FileName == <<"a">>
DotDot == <<".", ".">>

\* DATA_INPUT_DIR.resolve(): /data/input
DATA_INPUT_DIR == <<DataName, InputName>>

\* what exists on disk: directories and files
FileSystem ==
    {<<>>, <<DataName>>, DATA_INPUT_DIR, DATA_INPUT_DIR \o <<FileName>>,
     <<DataName, SiblingName>>, <<DataName, SiblingName, FileName>>}

\* Path.resolve() without symbolic links: ".." steps up, and stays at the root
RECURSIVE Resolve(_, _)
Resolve(done, parts) ==
    IF parts = <<>> THEN done
    ELSE IF Head(parts) = DotDot
    THEN Resolve(IF done = <<>> THEN <<>> ELSE SubSeq(done, 1, Len(done) - 1),
                 Tail(parts))
    ELSE Resolve(Append(done, Head(parts)), Tail(parts))

\* str(path) of an absolute path
RECURSIVE PathStr(_)
PathStr(parts) ==
    IF parts = <<>> THEN <<"/">>
    ELSE IF Len(parts) = 1 THEN <<"/">> \o parts[1]
    ELSE PathStr(SubSeq(parts, 1, Len(parts) - 1)) \o <<"/">> \o parts[Len(parts)]

\* str.startswith
StartsWith(str, prefix) ==
    Len(str) >= Len(prefix) /\ SubSeq(str, 1, Len(prefix)) = prefix

\* _resolve_input_path(filepath): the exception raised ("" when it returns)
\* and the resolved path
ResolveInputPath(filepath) ==
    LET path == IF filepath.absolute THEN filepath.parts
                ELSE DATA_INPUT_DIR \o filepath.parts
        resolved == Resolve(<<>>, path)
        input_resolved == Resolve(<<>>, DATA_INPUT_DIR)
    IN  [raised |-> IF ~StartsWith(PathStr(resolved), PathStr(input_resolved))
                    THEN "Access denied"
                    ELSE IF resolved \notin FileSystem THEN "File not found"
                    ELSE "",
         resolved |-> resolved]

\* the filepath arguments of the requests
PathPool ==
    [absolute : BOOLEAN,
     parts : SeqsUpTo({DataName, InputName, SiblingName, FileName, DotDot},
                      1, MaxParts)]

\* one request per behaviour: the function keeps no state between calls
CallResolveInputPath ==
    /\ pc = "idle"
    /\ lastCall.op = ""
    /\ \E filepath \in PathPool :
            LET r == ResolveInputPath(filepath)
            IN  /\ lastCall' = Called("_resolve_input_path", filepath, r.raised)
                /\ ret' = r.resolved
    /\ UNCHANGED <<entries, clock, issued, vaultFile, inputFile, policy, config,
                   tagMapArg, pc, tree, stages, outFile, policyFile, threads>>

InitPaths ==
    /\ entries = EmptyEntries
    /\ clock = 0
    /\ issued = <<>>
    /\ ret = <<>>
    /\ lastCall = NoCall
    /\ vaultFile = NoFile
    /\ inputFile = Malformed
    /\ policy = Policy(FALSE, <<>>)
    /\ config = DefaultConfig
    /\ tagMapArg = NoTagMap
    /\ pc = "idle"
    /\ tree = NoTree
    /\ stages = <<>>
    /\ outFile = NoFile
    /\ policyFile = NoFile
    /\ threads = <<>>

NextPaths == CallResolveInputPath

SpecPaths == InitPaths /\ [][NextPaths]_vars

\* the input directory is the path itself or an ancestor of it, by components
WithinInputDir(resolved) ==
    /\ Len(resolved) >= Len(DATA_INPUT_DIR)
    /\ SubSeq(resolved, 1, Len(DATA_INPUT_DIR)) = DATA_INPUT_DIR

\* C30: _resolve_input_path returns a path only when the resolved path exists
\* and lies within the input directory by path components, and rejects every
\* path that resolves outside it, a sibling directory sharing the name prefix
\* included, with an access-denied error
C30_OnlyPathsInsideInputDir ==
    lastCall.op = "_resolve_input_path" =>
        /\ lastCall.raised = "" => ret \in FileSystem /\ WithinInputDir(ret)
        /\ ~WithinInputDir(ret) => lastCall.raised = "Access denied"

=============================================================================
